---- MODULE Spec2Model ----
(***************************************************************************)
(* A model of the request-handling core of tide: the Body abstraction and  *)
(* the body extractors (src/src/body.rs), the server glue that routes a    *)
(* request and drives the middleware chain (src/src/server.rs), and the    *)
(* message store of src/examples/messages.rs.                              *)
(***************************************************************************)
EXTENDS Integers, Sequences, FiniteSets, TLC

VARIABLES
    phase,      \* "build" until serve() turns the ServerBuilder into a Server
    builder,    \* the ServerBuilder: data and the top-level Router
    log,        \* the builder calls made so far, in order
    server,     \* the Server: data and the frozen Router
    req,        \* the Request in flight: path, method, content-type header, Body
    ctx,        \* the RequestContext that next() is driven on
    pc,         \* where the request's task stands
    stack,      \* the middleware whose handle() awaits its downstream call
    argi,       \* the endpoint argument being extracted
    ret,        \* the Response travelling up the chain
    trace,      \* what ran for this request, in order
    responses,  \* the Responses Server::call returned to the transport
    fut,        \* the extractor future being driven (st = "none": no future)
    obs,        \* what each finished body read observed, oldest first
    store,      \* the Vec<Message> behind the Database's Arc<Mutex<..>>
    mutex,      \* the task holding the Database's Mutex, 0 when it is unlocked
    history,    \* the writes made to the Database, in the order they took the lock
    tasks       \* the concurrent requests' tasks calling into the Database

buildVars == <<phase, builder, log, server>>
chainVars == <<ctx, pc, stack, argi, ret, trace, responses>>
bodyVars == <<req, fut, obs>>
dataVars == <<store, mutex, history, tasks>>
vars == <<phase, builder, log, server, req, ctx, pc, stack, argi, ret, trace,
          responses, fut, obs, store, mutex, history, tasks>>

(***************************************************************************)
(* Bounds and input alphabets                                              *)
(***************************************************************************)
\* the longest chunk stream a request body delivers
MaxChunks == 2
\* the number of body reads tried on one Request
MaxOps == 2

\* Bytes: '1' (0x31) and 0xC8, a UTF-8 lead byte that no byte of this
\* alphabet continues, so every sequence holding it is invalid UTF-8.
ChunkPayloads == { <<>>, <<49>>, <<200>>, <<49, 200>> }

ChunkOk(b) == [ok |-> TRUE, bytes |-> b]
ChunkErr == [ok |-> FALSE, bytes |-> <<>>]
Chunks == { ChunkOk(b) : b \in ChunkPayloads } \cup { ChunkErr }

RECURSIVE SeqsUpTo(_, _)
SeqsUpTo(S, n) ==
    IF n = 0 THEN { <<>> }
    ELSE LET shorter == SeqsUpTo(S, n - 1)
         IN  shorter \cup { Append(s, x) : s \in { t \in shorter : Len(t) = n - 1 }, x \in S }

Streams == SeqsUpTo(Chunks, MaxChunks)

\* content-type header values, as token sequences; "\xff" stands for a
\* value that is not visible ASCII (HeaderValue::to_str fails on it).
NoHeader == [present |-> FALSE, toks |-> <<>>]
Header(t) == [present |-> TRUE, toks |-> t]
ContentTypes ==
    { NoHeader,
      Header(<<"multipart/form-data">>),
      Header(<<"multipart/form-data; ", "boundary=", "XYZ">>),
      Header(<<"\\xff", "boundary=", "XYZ">>) }

(***************************************************************************)
(* Body (body.rs)                                                          *)
(***************************************************************************)
Fixed(v) == [kind |-> "Fixed", bytes |-> v, stream |-> <<>>]
Streaming(s) == [kind |-> "Streaming", bytes |-> <<>>, stream |-> s]

\* Body::empty
Body_empty == Fixed(<<>>)

\* impl From<Vec<u8>> for Body
Body_from_vec(v) == Fixed(v)

\* impl From<hyper::Body> for Body: every chunk result is mapped one to one
Body_from_hyper(s) ==
    Streaming([i \in 1..Len(s) |->
        IF s[i].ok THEN ChunkOk(s[i].bytes) ELSE ChunkErr])

\* (fault: the chunk is put in front of what was read so far)
extend_Prepend(bytes, chunk) == chunk.bytes \o bytes
\* bytes.extend(chunk.as_bytes())
extend(bytes, chunk) == bytes \o chunk.bytes

\* (fault: an Err chunk is skipped and the loop goes on)
read_step_SkipsErr(body, bytes) ==
    IF body.kind = "Fixed"
    THEN [body |-> body, bytes |-> body.bytes, out |-> "ok", took |-> 0]
    ELSE IF body.stream = <<>>
         THEN [body |-> body, bytes |-> bytes, out |-> "ok", took |-> 0]
         ELSE [body |-> Streaming(Tail(body.stream)),
               bytes |-> bytes \o Head(body.stream).bytes, out |-> "more", took |-> 1]
\* (fault: the Fixed arm moves the bytes out instead of cloning them)
read_step_TakesFixed(body, bytes) ==
    IF body.kind = "Fixed"
    THEN [body |-> Body_empty, bytes |-> body.bytes, out |-> "ok", took |-> 0]
    ELSE IF body.stream = <<>>
         THEN [body |-> body, bytes |-> bytes, out |-> "ok", took |-> 0]
         ELSE LET chunk == Head(body.stream)
                  rest == Streaming(Tail(body.stream))
              IN  IF chunk.ok
                  THEN [body |-> rest, bytes |-> bytes \o chunk.bytes,
                        out |-> "more", took |-> 1]
                  ELSE [body |-> rest, bytes |-> <<>>, out |-> "err", took |-> 1]
\* One turn of Body::read_to_vec: the Fixed arm, or one `await!(s.next())` of
\* the Streaming arm's loop.  out: "more" (loop again), "ok" (Ok(bytes)),
\* "err" (the `?` on an Err chunk returns, dropping `bytes`).
read_step(body, bytes) ==
    IF body.kind = "Fixed"
    THEN [body |-> body, bytes |-> body.bytes, out |-> "ok", took |-> 0]
    ELSE IF body.stream = <<>>
         THEN [body |-> body, bytes |-> bytes, out |-> "ok", took |-> 0]
         ELSE LET chunk == Head(body.stream)
                  rest == Streaming(Tail(body.stream))
              IN  IF chunk.ok
                  THEN [body |-> rest, bytes |-> extend(bytes, chunk),
                        out |-> "more", took |-> 1]
                  ELSE [body |-> rest, bytes |-> <<>>, out |-> "err", took |-> 1]

(***************************************************************************)
(* Decoders (the codec crates called by the extractors)                    *)
(***************************************************************************)
AllBytes(b, P(_)) == \A i \in 1..Len(b) : P(b[i])
IsAscii(x) == x < 128
IsDigit(x) == x \in 48..57

\* String::from_utf8 over the alphabet above
ValidUtf8(b) == AllBytes(b, IsAscii)
\* serde_json::from_slice::<u64>: a non-empty run of digits
ValidJson(b) == Len(b) > 0 /\ AllBytes(b, IsDigit)
\* serde_qs::from_bytes into a map of strings: any valid UTF-8 text
ValidForm(b) == ValidUtf8(b)
\* String::from_utf8_lossy: invalid bytes become U+FFFD (65533)
from_utf8_lossy(b) == [i \in 1..Len(b) |-> IF IsAscii(b[i]) THEN b[i] ELSE 65533]

(***************************************************************************)
(* Extractors (body.rs)                                                    *)
(***************************************************************************)
BodyKinds == {"Json", "Form", "Str", "StrLossy", "Bytes", "MultipartForm"}

None == [some |-> FALSE, val |-> <<>>]
Some(v) == [some |-> TRUE, val |-> v]

BAD_REQUEST == 400

ExtractOk(data, boundary) ==
    [ok |-> TRUE, status |-> 0, data |-> data, boundary |-> boundary]
\* (fault: a server error instead of BAD_REQUEST)
mk_err_500(e) == [ok |-> FALSE, status |-> 500, data |-> <<>>, boundary |-> <<>>]
\* mk_err: whatever the error, StatusCode::BAD_REQUEST.into_response()
mk_err(e) == [ok |-> FALSE, status |-> BAD_REQUEST, data |-> <<>>, boundary |-> <<>>]
\* a failed read_to_vec that no extractor wraps (Err(Error), no Response)
ReadErr == [ok |-> FALSE, status |-> 0, data |-> <<>>, boundary |-> <<>>]

\* ct.find(BOUNDARY): the position of the first "boundary=" token, 0 if none
find(toks, tok) ==
    IF \E i \in 1..Len(toks) : toks[i] = tok
    THEN CHOOSE i \in 1..Len(toks) :
            toks[i] = tok /\ \A j \in 1..(i - 1) : toks[j] # tok
    ELSE 0

\* HeaderValue::to_str: Err on a value that is not visible ASCII
to_str_ok(toks) == \A i \in 1..Len(toks) : toks[i] # "\\xff"

\* MultipartForm::extract, lines 136-140: the boundary parameter of content-type
boundary_of(ct) ==
    IF ~ct.present THEN None
    ELSE IF ~to_str_ok(ct.toks) THEN None
    ELSE LET idx == find(ct.toks, "boundary=")
         IN  IF idx = 0 THEN None
             ELSE Some(SubSeq(ct.toks, idx + 1, Len(ct.toks)))

NoFut ==
    [st |-> "none", kind |-> "none", body |-> Body_empty, boundary |-> None,
     given |-> Body_empty, bytes |-> <<>>, nread |-> 0, read |-> "pending",
     res |-> ReadErr]

\* (fault: the body is read but left in the Request)
replace_body_Kept(r) == r
\* std::mem::replace(req.body_mut(), Body::empty()): the Request afterwards
replace_body(r) == [r EXCEPT !.body = Body_empty]

\* (fault: the body stays in the Request until the future is polled)
extract_TakenAtPoll(kind, r) ==
    [req |-> r,
     fut |-> [st |-> "created", kind |-> kind, body |-> r.body,
              boundary |-> IF kind = "MultipartForm"
                           THEN boundary_of(r.content_type) ELSE None,
              given |-> r.body, bytes |-> <<>>, nread |-> 0, read |-> "pending",
              res |-> ReadErr]]
\* The synchronous part of <kind as Extract>::extract for the body extractors:
\* the body is moved into the future and the Request keeps Body::empty().
extract(kind, r) ==
    [req |-> replace_body(r),
     fut |-> [st |-> "created", kind |-> kind, body |-> r.body,
              boundary |-> IF kind = "MultipartForm"
                           THEN boundary_of(r.content_type) ELSE None,
              given |-> r.body, bytes |-> <<>>, nread |-> 0, read |-> "pending",
              res |-> ReadErr]]

\* `req.body_mut().read_to_vec()` called directly: the body stays in place
read_in_place(r) ==
    [req |-> r,
     fut |-> [st |-> "created", kind |-> "read_to_vec", body |-> r.body,
              boundary |-> None, given |-> r.body, bytes |-> <<>>, nread |-> 0,
              read |-> "pending", res |-> ReadErr]]

\* What each extractor's async block does once read_to_vec returned Ok(body)
decode(kind, body, boundary) ==
    CASE kind = "Json" ->
            IF ValidJson(body) THEN ExtractOk(body, <<>>) ELSE mk_err("json")
      [] kind = "Form" ->
            IF ValidForm(body) THEN ExtractOk(body, <<>>) ELSE mk_err("form")
      [] kind = "Str" ->
            IF ValidUtf8(body) THEN ExtractOk(body, <<>>) ELSE mk_err("utf8")
      [] kind = "StrLossy" -> ExtractOk(from_utf8_lossy(body), <<>>)
      [] kind = "Bytes" -> ExtractOk(body, <<>>)
      [] kind = "MultipartForm" ->
            IF boundary.some THEN ExtractOk(body, boundary.val) ELSE mk_err("boundary")
      [] OTHER -> ExtractOk(body, <<>>)

\* (variant: the boundary is checked before the first read)
poll_BoundaryFirst(f) ==
    IF f.kind = "MultipartForm" /\ ~f.boundary.some
    THEN [f EXCEPT !.st = "ready", !.res = mk_err("boundary")]
    ELSE LET s == read_step(f.body, f.bytes)
             g == [f EXCEPT !.body = s.body, !.bytes = s.bytes, !.nread = @ + s.took]
         IN  CASE s.out = "more" -> [g EXCEPT !.st = "reading"]
               [] s.out = "err" ->
                     [g EXCEPT !.st = "ready", !.read = "err", !.res = mk_err("read")]
               [] OTHER ->
                     [g EXCEPT !.st = "ready", !.read = "ok",
                               !.res = decode(f.kind, s.bytes, f.boundary)]
\* One poll of an extractor's future up to its next suspension point
poll(f) ==
    LET s == read_step(f.body, f.bytes)
        g == [f EXCEPT !.body = s.body, !.bytes = s.bytes, !.nread = @ + s.took]
    IN  CASE s.out = "more" -> [g EXCEPT !.st = "reading"]
          [] s.out = "err" ->
                [g EXCEPT !.st = "ready", !.read = "err",
                          !.res = IF f.kind = "read_to_vec" THEN ReadErr
                                  ELSE mk_err("read")]
          [] OTHER ->
                [g EXCEPT !.st = "ready", !.read = "ok",
                          !.res = decode(f.kind, s.bytes, f.boundary)]

(***************************************************************************)
(* Actions on one Request's body                                           *)
(***************************************************************************)
Observation(f) ==
    [kind |-> f.kind, given |-> f.given, boundary |-> f.boundary,
     nread |-> f.nread, read |-> f.read, bytes |-> f.bytes, res |-> f.res]

\* an extractor's extract() is called on the Request
BodyExtract(kind) ==
    /\ fut.st = "none"
    /\ Len(obs) + Len(trace) < MaxOps
    /\ req' = extract(kind, req).req
    /\ fut' = extract(kind, req).fut
    /\ UNCHANGED <<obs, buildVars, chainVars, dataVars>>

\* read_to_vec is called on the Request's own body
BodyRead ==
    /\ fut.st = "none"
    /\ Len(obs) + Len(trace) < MaxOps
    /\ fut' = read_in_place(req).fut
    /\ UNCHANGED <<req, obs, buildVars, chainVars, dataVars>>

\* the future is polled once
FutPoll ==
    /\ fut.st \in {"created", "reading"}
    /\ fut' = poll(fut)
    /\ req' = IF fut.kind = "read_to_vec" THEN [req EXCEPT !.body = fut'.body] ELSE req
    /\ UNCHANGED <<obs, buildVars, chainVars, dataVars>>

\* the caller takes the future's output
BodyCollect ==
    /\ fut.st = "ready"
    /\ obs' = Append(obs, Observation(fut))
    /\ fut' = NoFut
    /\ UNCHANGED <<req, buildVars, chainVars, dataVars>>


(***************************************************************************)
(* Router: Resources by path pattern, each with the middleware that apply  *)
(* to it, and the scopes (the root router and the open nested routers)     *)
(***************************************************************************)
Methods == {"GET", "POST"}

NoEndpoint == "none"

RootScope == [prefix |-> <<>>, middleware |-> <<>>]

Router_new == [table |-> <<>>, patterns |-> {}, scopes |-> <<RootScope>>]

TopScope(router) == router.scopes[Len(router.scopes)]

\* Router::middleware: the middleware joins the end of the active scope's stack
Router_middleware(router, m) ==
    [router EXCEPT !.scopes[Len(router.scopes)].middleware = Append(@, m)]

\* The Resource at a pattern: found, or created with the stack of the scope it
\* is registered in
ResourceAt(router, full) ==
    IF full \in router.patterns
    THEN (CHOOSE i \in 1..Len(router.table) : router.table[i].pattern = full)
    ELSE Len(router.table) + 1

\* Router::at(pattern).method(endpoint): registers the endpoint on the Resource
Router_at(router, pattern, method, endpoint) ==
    LET full == TopScope(router).prefix \o pattern
        i == ResourceAt(router, full)
        fresh == [pattern |-> full,
                  middleware |-> TopScope(router).middleware,
                  endpoints |-> [m \in Methods |-> NoEndpoint]]
        table == IF full \in router.patterns THEN router.table
                 ELSE Append(router.table, fresh)
    IN  [router EXCEPT !.table = [table EXCEPT ![i].endpoints[method] = endpoint],
                       !.patterns = @ \cup {full}]

\* a nested router starts from the outer router's stack at that point
Router_nest(router, prefix) ==
    [router EXCEPT !.scopes =
        Append(@, [prefix |-> TopScope(router).prefix \o prefix,
                   middleware |-> TopScope(router).middleware])]

Router_end_nest(router) ==
    [router EXCEPT !.scopes = SubSeq(@, 1, Len(@) - 1)]

IsPrefix(n, p) == Len(n) <= Len(p) /\ SubSeq(p, 1, Len(n)) = n

\* the segments that continue trie node `node`
Children(patterns, node) ==
    { p[Len(node) + 1] : p \in { q \in patterns : Len(q) > Len(node) /\ IsPrefix(node, q) } }

\* Trie descent, one path segment at a time: a literal child is preferred to
\* the capture child, with no backtracking.
RECURSIVE Descend(_, _, _, _)
Descend(patterns, path, node, params) ==
    IF Len(node) = Len(path)
    THEN [found |-> node \in patterns, pattern |-> node, params |-> params]
    ELSE LET seg == path[Len(node) + 1]
             kids == Children(patterns, node)
         IN  IF seg \in kids /\ seg # "{}"
             THEN Descend(patterns, path, Append(node, seg), params)
             ELSE IF "{}" \in kids
                  THEN Descend(patterns, path, Append(node, "{}"), Append(params, seg))
                  ELSE [found |-> FALSE, pattern |-> <<>>, params |-> <<>>]

NoRoute ==
    [some |-> FALSE, endpoint |-> NoEndpoint, params |-> <<>>, middleware |-> <<>>,
     pattern |-> <<>>]

\* (fault: the captures are collected last to first)
route_CapturesReversed(router, path, method) ==
    LET d == Descend(router.patterns, path, <<>>, <<>>)
    IN  IF ~d.found THEN NoRoute
        ELSE LET res == router.table[ResourceAt(router, d.pattern)]
             IN  IF res.endpoints[method] = NoEndpoint THEN NoRoute
                 ELSE [some |-> TRUE, endpoint |-> res.endpoints[method],
                       params |-> [i \in 1..Len(d.params) |->
                                      d.params[Len(d.params) + 1 - i]],
                       middleware |-> res.middleware, pattern |-> d.pattern]
\* Router::route(path, method) -> Option<RouteResult>
route(router, path, method) ==
    LET d == Descend(router.patterns, path, <<>>, <<>>)
    IN  IF ~d.found THEN NoRoute
        ELSE LET res == router.table[ResourceAt(router, d.pattern)]
             IN  IF res.endpoints[method] = NoEndpoint THEN NoRoute
                 ELSE [some |-> TRUE, endpoint |-> res.endpoints[method],
                       params |-> d.params, middleware |-> res.middleware,
                       pattern |-> d.pattern]

(***************************************************************************)
(* ServerBuilder and Server (server.rs)                                    *)
(***************************************************************************)
\* Middleware are named by the position of their registration in the build;
\* ServerBuilder::new registers the RootLogger first.
RootLogger == 1

\* (fault: the middleware never reaches the router)
ServerBuilder_middleware_Dropped(b, m) == b
\* ServerBuilder::middleware
ServerBuilder_middleware(b, m) ==
    [b EXCEPT !.router = Router_middleware(@, m)]

\* ServerBuilder::new
ServerBuilder_new(data) ==
    ServerBuilder_middleware([data |-> data, router |-> Router_new], RootLogger)

\* ServerBuilder::at(path).method(endpoint)
ServerBuilder_at(b, pattern, method, endpoint) ==
    [b EXCEPT !.router = Router_at(@, pattern, method, endpoint)]

\* impl From<ServerBuilder<Data>> for Server<Data>
Server_from(b) == [data |-> b.data, router |-> b.router]

Op(op, pattern, method, endpoint) ==
    [op |-> op, pattern |-> pattern, method |-> method, endpoint |-> endpoint]
OpMiddleware == Op("middleware", <<>>, "", NoEndpoint)
OpAt(pattern, method, endpoint) == Op("at", pattern, method, endpoint)
OpNest(prefix) == Op("nest", prefix, "", NoEndpoint)
OpEnd == Op("end", <<>>, "", NoEndpoint)

\* one builder call; n is the number of calls made before it
Apply(b, o, n) ==
    CASE o.op = "middleware" -> ServerBuilder_middleware(b, n + 1)
      [] o.op = "at" -> ServerBuilder_at(b, o.pattern, o.method, o.endpoint)
      [] o.op = "nest" -> [b EXCEPT !.router = Router_nest(@, o.pattern)]
      [] OTHER -> [b EXCEPT !.router = Router_end_nest(@)]

\* the builder after ServerBuilder::new(data) and the calls of `ops`
RECURSIVE Build(_, _)
Build(data, ops) ==
    IF ops = <<>> THEN ServerBuilder_new(data)
    ELSE Apply(Build(data, SubSeq(ops, 1, Len(ops) - 1)), ops[Len(ops)], Len(ops))

\* the log of a build: ServerBuilder::new's own middleware call, then `ops`
LogOf(ops) == <<OpMiddleware>> \o ops

(***************************************************************************)
(* Endpoints: the extractors of each handler's arguments, in order         *)
(***************************************************************************)
EndpointArgs(e) ==
    CASE e = "hello" -> <<>>
      [] e = "new_message" -> <<"AppData", "Json">>
      [] e = "set_message" -> <<"AppData", "Path", "Json">>
      [] e = "get_message" -> <<"AppData", "Path">>
      [] e = "json_data" -> <<"Json", "AppData">>
      [] e = "json" -> <<"Json">>
      [] e = "form" -> <<"Form">>
      [] e = "str" -> <<"Str">>
      [] e = "lossy" -> <<"StrLossy">>
      [] e = "bytes" -> <<"Bytes">>
      [] e = "upload" -> <<"MultipartForm">>
      [] OTHER -> <<>>

(***************************************************************************)
(* Responses                                                               *)
(***************************************************************************)
NOT_FOUND == 404
OK == 200

Response(status, body, by, who) ==
    [status |-> status, body |-> body, by |-> by, who |-> who]
NoResponse == Response(0, <<>>, "none", 0)

\* (fault: the unrouted request is answered 200)
NotFoundResponse_Ok == Response(OK, <<>>, "server", 0)
\* Server::call's else branch: status NOT_FOUND, hyper::Body::empty()
NotFoundResponse == Response(NOT_FOUND, <<>>, "server", 0)
\* the Response an extractor's Err carries
ExtractorResponse(res) == Response(res.status, <<>>, "extractor", 0)
\* what an endpoint's return value converts to
EndpointResponse(e) == Response(OK, <<>>, e, 0)
\* the Response a middleware produces itself
MiddlewareResponse(m) == Response(403, <<>>, "middleware", m)

(***************************************************************************)
(* Database (examples/messages.rs): a Vec<Message> behind Arc<Mutex<..>>.  *)
(* A Message is modelled by a natural number; ids count from 0.            *)
(***************************************************************************)
\* (fault: the length is returned as the index)
Database_insert_OffByOne(table, msg) ==
    LET pushed == Append(table, msg)
    IN  [table |-> pushed, ret |-> Len(pushed)]
\* Database::insert: table.push(msg); table.len() - 1
Database_insert(table, msg) ==
    LET pushed == Append(table, msg)
    IN  [table |-> pushed, ret |-> Len(pushed) - 1]

\* Database::get: Vec::get(id).cloned()
Database_get(table, id) ==
    IF id < Len(table) THEN [some |-> TRUE, val |-> table[id + 1]]
    ELSE [some |-> FALSE, val |-> 0]

\* Database::set: Some(old_msg) => { *old_msg = msg; true }, None => false
Database_set(table, id, msg) ==
    IF id < Len(table)
    THEN [table |-> [table EXCEPT ![id + 1] = msg], ret |-> TRUE]
    ELSE [table |-> table, ret |-> FALSE]

(***************************************************************************)
(* Handlers' values and their conversion to a Response                     *)
(***************************************************************************)
\* serde_json::from_slice of a digit run: the number it denotes
RECURSIVE from_slice(_)
from_slice(b) ==
    IF b = <<>> THEN 0
    ELSE 10 * from_slice(SubSeq(b, 1, Len(b) - 1)) + (b[Len(b)] - 48)

\* usize::to_string: the decimal digits
RECURSIVE to_string(_)
to_string(n) ==
    IF n < 10 THEN <<48 + n>> ELSE to_string(n \div 10) \o <<48 + (n % 10)>>

\* A negative number stands for a value whose Serialize impl returns an error
\* (a map with non-string keys for serde_json, a bare scalar for serde_qs).
Serializable(v) == v >= 0

\* serde_json::to_vec
to_vec(v) ==
    IF Serializable(v) THEN [ok |-> TRUE, bytes |-> to_string(v)]
    ELSE [ok |-> FALSE, bytes |-> <<>>]

\* serde_qs::to_string(..).into_bytes(): "v=" and the digits
qs_to_string(v) ==
    IF Serializable(v) THEN [ok |-> TRUE, bytes |-> <<118, 61>> \o to_string(v)]
    ELSE [ok |-> FALSE, bytes |-> <<>>]

\* what a handler returns
Out(kind, val) == [kind |-> kind, val |-> val]

\* IntoResponse for the handler's return value.  Json and Form call unwrap()
\* on the serializer's Result: an Err panics and there is no Response.
into_response(e, out) ==
    CASE out.kind = "text" ->
            [panic |-> FALSE, response |-> Response(OK, out.val, e, 0)]
      [] out.kind = "json" ->
            IF to_vec(out.val).ok
            THEN [panic |-> FALSE, response |-> Response(OK, to_vec(out.val).bytes, e, 0)]
            ELSE [panic |-> TRUE, response |-> NoResponse]
      [] out.kind = "form" ->
            IF qs_to_string(out.val).ok
            THEN [panic |-> FALSE,
                  response |-> Response(OK, qs_to_string(out.val).bytes, e, 0)]
            ELSE [panic |-> TRUE, response |-> NoResponse]
      [] out.kind = "status" ->
            [panic |-> FALSE, response |-> Response(out.val, <<>>, e, 0)]
      [] out.kind = "unit" ->
            [panic |-> FALSE, response |-> Response(OK, <<>>, e, 0)]
      [] OTHER -> [panic |-> FALSE, response |-> EndpointResponse(e)]

Write(op, id, msg) == [op |-> op, id |-> id, msg |-> msg]

\* the values a handler may come to return (for those that build one themselves)
Returns(e) == IF e \in {"to_json", "to_form"} THEN {7, -1} ELSE {0}

\* The handler's body, called with its extracted arguments, on the table the
\* Database holds: the table afterwards, the value returned, the writes made
invoke(e, args, table, v) ==
    CASE e = "new_message" ->
            LET r == Database_insert(table, from_slice(args[2]))
            IN  [table |-> r.table, out |-> Out("text", to_string(r.ret)),
                 writes |-> <<Write("insert", r.ret, from_slice(args[2]))>>]
      [] e = "set_message" ->
            LET r == Database_set(table, args[2][1], from_slice(args[3]))
            IN  [table |-> r.table,
                 out |-> IF r.ret THEN Out("unit", 0) ELSE Out("status", NOT_FOUND),
                 writes |-> <<Write("set", args[2][1], from_slice(args[3]))>>]
      [] e = "get_message" ->
            LET g == Database_get(table, args[2][1])
            IN  [table |-> table,
                 out |-> IF g.some THEN Out("json", g.val) ELSE Out("status", NOT_FOUND),
                 writes |-> <<>>]
      [] e = "to_json" -> [table |-> table, out |-> Out("json", v), writes |-> <<>>]
      [] e = "to_form" -> [table |-> table, out |-> Out("form", v), writes |-> <<>>]
      [] OTHER -> [table |-> table, out |-> Out("plain", 0), writes |-> <<>>]

\* the tasks of concurrent requests: each calls one method of the Database
\* through its own clone of the handle
MaxTasks == 3
Tasks == 1..MaxTasks
\* ret, found: what the method returned; seen: how many writes had taken
\* effect when the call's own effect took place
IdleTask ==
    [pc |-> "idle", op |-> "none", id |-> 0, msg |-> 0, ret |-> 0, found |-> FALSE,
     seen |-> 0]

\* Database::new(): an empty table behind an unlocked Mutex; no task runs
DataInit ==
    /\ store = <<>>
    /\ mutex = 0
    /\ history = <<>>
    /\ tasks = [t \in Tasks |-> IdleTask]

(***************************************************************************)
(* RequestContext and the chain                                            *)
(***************************************************************************)
\* how often one handle() may call downstream
MaxDownstream == 2

NoCtx == [endpoint |-> NoEndpoint, params |-> <<>>, next_middleware |-> <<>>]

Event(ev, who, name, saw) == [ev |-> ev, who |-> who, name |-> name, saw |-> saw]

\* the number of downstream calls a middleware may make: the RootLogger
\* calls downstream once, another middleware as it chooses
CallChoices(m) == IF m = RootLogger THEN {1} ELSE 0..MaxDownstream

Reverse(q) == [i \in 1..Len(q) |-> q[Len(q) + 1 - i]]

\* (fault: the middleware slice is handed over back to front)
RequestContext_Reversed(data, rr) ==
    [endpoint |-> rr.endpoint, params |-> rr.params,
     next_middleware |-> Reverse(rr.middleware)]
\* Server::call, lines 122-134: the RequestContext of a routed request
RequestContext(data, rr) ==
    [endpoint |-> rr.endpoint, params |-> rr.params, next_middleware |-> rr.middleware]

Request(path, method, ct, body) ==
    [path |-> path, method |-> method, content_type |-> ct, body |-> body]
NoRequest == Request(<<>>, "", NoHeader, Body_empty)

\* (fault: the chain goes on after the middleware answered)
ShortCircuit_Continues(m) == [pc |-> "next", ret |-> MiddlewareResponse(m)]
\* a handle() that returns a Response without calling downstream
ShortCircuit(m) == [pc |-> "ret", ret |-> MiddlewareResponse(m)]

\* (fault: the 404 is produced for routed requests too)
call_NoElse(srv, path, method) ==
    LET rr == route(srv.router, path, method)
    IN  IF rr.some
        THEN [routed |-> TRUE, ctx |-> RequestContext(srv.data, rr),
              response |-> NotFoundResponse]
        ELSE [routed |-> FALSE, ctx |-> NoCtx, response |-> NotFoundResponse]
\* (variant: a matched path with an unbound method is answered 405)
call_405(srv, path, method) ==
    LET rr == route(srv.router, path, method)
        d == Descend(srv.router.patterns, path, <<>>, <<>>)
    IN  IF rr.some
        THEN [routed |-> TRUE, ctx |-> RequestContext(srv.data, rr),
              response |-> NoResponse]
        ELSE [routed |-> FALSE, ctx |-> NoCtx,
              response |-> IF d.found THEN Response(405, <<>>, "server", 0)
                           ELSE NotFoundResponse]
\* Server::call: what the routing decides for the request
call(srv, path, method) ==
    LET rr == route(srv.router, path, method)
    IN  IF rr.some
        THEN [routed |-> TRUE, ctx |-> RequestContext(srv.data, rr),
              response |-> NoResponse]
        ELSE [routed |-> FALSE, ctx |-> NoCtx, response |-> NotFoundResponse]

\* Server::call on an inbound request: the body is wrapped, the request is
\* routed, and an unrouted one is answered at once
Call(path, method, ct, stream) ==
    /\ phase = "serving"
    /\ pc = "idle"
    /\ LET c == call(server, path, method)
       IN  /\ req' = Request(path, method, ct, Body_from_hyper(stream))
           /\ ctx' = c.ctx
           /\ pc' = IF c.routed THEN "next" ELSE "done"
           /\ responses' = IF c.response = NoResponse THEN <<>> ELSE <<c.response>>
    /\ stack' = <<>>
    /\ argi' = 0
    /\ ret' = NoResponse
    /\ trace' = <<>>
    /\ fut' = NoFut
    /\ obs' = <<>>
    /\ UNCHANGED <<buildVars, dataVars>>

\* ctx.next() with middleware left: the first one's handle() runs its
\* pre-logic and either calls downstream or produces a Response itself
MwHandle(n) ==
    /\ pc = "next"
    /\ ctx.next_middleware # <<>>
    /\ LET m == Head(ctx.next_middleware)
           rest == Tail(ctx.next_middleware)
       IN  /\ n \in CallChoices(m)
           /\ IF n = 0
              THEN /\ trace' = trace \o <<Event("pre", m, "", NoResponse),
                                          Event("short", m, "", NoResponse)>>
                   /\ ret' = ShortCircuit(m).ret
                   /\ pc' = ShortCircuit(m).pc
                   /\ UNCHANGED <<stack, ctx>>
              ELSE /\ trace' = Append(trace, Event("pre", m, "", NoResponse))
                   /\ stack' = Append(stack, [mw |-> m, rest |-> rest, left |-> n - 1])
                   /\ ctx' = [ctx EXCEPT !.next_middleware = rest]
                   /\ pc' = "next"
                   /\ UNCHANGED ret
    /\ UNCHANGED <<argi, responses, req, fut, obs, buildVars, dataVars>>

\* ctx.next() with no middleware left: the terminal action starts
Terminal ==
    /\ pc = "next"
    /\ ctx.next_middleware = <<>>
    /\ pc' = "extract"
    /\ argi' = 1
    /\ UNCHANGED <<ctx, stack, ret, trace, responses, req, fut, obs, buildVars, dataVars>>

\* (fault: the app-data extractor takes the body like a body extractor)
extract_app_data_TakesBody(r) ==
    [req |-> replace_body(r),
     fut |-> [NoFut EXCEPT !.st = "ready", !.kind = "AppData",
                           !.res = ExtractOk(<<>>, <<>>)]]
\* AppData::extract: future::ok(AppData(data.clone())), Request untouched
extract_app_data(r) ==
    [req |-> r,
     fut |-> [NoFut EXCEPT !.st = "ready", !.kind = "AppData",
                           !.res = ExtractOk(<<>>, <<>>)]]

\* usize::from_str on a path segment
Numerals == <<"0", "1", "2", "3", "4", "5">>
parse_usize(seg) ==
    IF \E i \in 1..Len(Numerals) : Numerals[i] = seg
    THEN [ok |-> TRUE, val |-> (CHOOSE i \in 1..Len(Numerals) : Numerals[i] = seg) - 1]
    ELSE [ok |-> FALSE, val |-> 0]

\* Path<T>::extract: the first capture of the RouteMatch, parsed; a ready
\* future, the Request untouched
extract_path(r, params) ==
    [req |-> r,
     fut |-> [NoFut EXCEPT
                !.st = "ready", !.kind = "Path",
                !.res = IF params = <<>> THEN mk_err("capture")
                        ELSE IF parse_usize(params[1]).ok
                             THEN ExtractOk(<<parse_usize(params[1]).val>>, <<>>)
                             ELSE mk_err("parse")]]

\* the terminal action calls extract() for the next argument
EpExtract ==
    /\ pc = "extract"
    /\ fut.st = "none"
    /\ argi <= Len(EndpointArgs(ctx.endpoint))
    /\ LET kind == EndpointArgs(ctx.endpoint)[argi]
           x == CASE kind = "AppData" -> extract_app_data(req)
                  [] kind = "Path" -> extract_path(req, ctx.params)
                  [] OTHER -> extract(kind, req)
       IN  /\ req' = x.req
           /\ fut' = x.fut
    /\ UNCHANGED <<obs, chainVars, buildVars, dataVars>>

\* the argument's future is ready: Ok goes on to the next argument, Err is
\* the Response of the request
EpCollect ==
    /\ pc = "extract"
    /\ fut.st = "ready"
    /\ obs' = Append(obs, Observation(fut))
    /\ fut' = NoFut
    /\ IF fut.res.ok
       THEN /\ argi' = argi + 1
            /\ UNCHANGED <<pc, ret, trace>>
       ELSE /\ ret' = ExtractorResponse(fut.res)
            /\ pc' = "ret"
            /\ trace' = Append(trace, Event("extract_failed", 0, fut.kind, NoResponse))
            /\ UNCHANGED argi
    /\ UNCHANGED <<ctx, stack, responses, req, buildVars, dataVars>>

\* every argument is extracted: the endpoint runs, and its return value is
\* converted into the Response
EpInvoke ==
    /\ pc = "extract"
    /\ fut.st = "none"
    /\ argi > Len(EndpointArgs(ctx.endpoint))
    /\ \E v \in Returns(ctx.endpoint) :
          LET n == Len(EndpointArgs(ctx.endpoint))
              args == [i \in 1..n |-> obs[Len(obs) - n + i].res.data]
              r == invoke(ctx.endpoint, args, store, v)
              ir == into_response(ctx.endpoint, r.out)
          IN  /\ store' = r.table
              /\ history' = history \o r.writes
              /\ IF ir.panic
                 THEN /\ trace' = trace \o <<Event("endpoint", 0, ctx.endpoint, NoResponse),
                                             Event("serialize_failed", 0, ctx.endpoint, NoResponse)>>
                      /\ pc' = "panicked"
                      /\ UNCHANGED ret
                 ELSE /\ trace' = Append(trace, Event("endpoint", 0, ctx.endpoint, NoResponse))
                      /\ ret' = ir.response
                      /\ pc' = "ret"
    /\ UNCHANGED <<ctx, stack, argi, responses, req, fut, obs, buildVars, mutex, tasks>>

\* a panic unwinds the request's task: the runtime drops the task, and the
\* transport gets no Response for the request
Unwind ==
    /\ pc = "panicked"
    /\ pc' = "idle"
    /\ req' = NoRequest
    /\ ctx' = NoCtx
    /\ stack' = <<>>
    /\ argi' = 0
    /\ ret' = NoResponse
    /\ trace' = <<>>
    /\ responses' = <<>>
    /\ fut' = NoFut
    /\ obs' = <<>>
    /\ UNCHANGED <<buildVars, dataVars>>

\* a downstream call returned to the middleware that made it: it calls
\* downstream again, or runs its post-logic and returns the Response
MwResume ==
    /\ pc = "ret"
    /\ stack # <<>>
    /\ LET f == stack[Len(stack)]
       IN  IF f.left > 0
           THEN /\ stack' = [stack EXCEPT ![Len(stack)].left = @ - 1]
                /\ ctx' = [ctx EXCEPT !.next_middleware = f.rest]
                /\ pc' = "next"
                /\ trace' = Append(trace, Event("again", f.mw, "", ret))
                /\ UNCHANGED ret
           ELSE /\ stack' = SubSeq(stack, 1, Len(stack) - 1)
                /\ trace' = Append(trace, Event("post", f.mw, "", ret))
                /\ UNCHANGED <<ctx, pc, ret>>
    /\ UNCHANGED <<argi, responses, req, fut, obs, buildVars, dataVars>>

\* Server::call, lines 135-136: Ok(res.map(Into::into))
Respond ==
    /\ pc = "ret"
    /\ stack = <<>>
    /\ responses' = Append(responses, ret)
    /\ pc' = "done"
    /\ UNCHANGED <<ctx, stack, argi, ret, trace, req, fut, obs, buildVars, dataVars>>

\* the transport takes the Response; the request's task is over
Deliver ==
    /\ pc = "done"
    /\ pc' = "idle"
    /\ req' = NoRequest
    /\ ctx' = NoCtx
    /\ stack' = <<>>
    /\ argi' = 0
    /\ ret' = NoResponse
    /\ trace' = <<>>
    /\ responses' = <<>>
    /\ fut' = NoFut
    /\ obs' = <<>>
    /\ UNCHANGED <<buildVars, dataVars>>

(***************************************************************************)
(* Building the application                                                *)
(***************************************************************************)
\* the number of builder calls after ServerBuilder::new
MaxBuildOps == 4

UnitData == "()"
NoServer == [data |-> UnitData, router |-> Router_new]

\* one call on the ServerBuilder (middleware, at, nest, end of a nest)
BuilderCall(o) ==
    /\ phase = "build"
    /\ o.op = "end" => Len(builder.router.scopes) > 1
    /\ builder' = Apply(builder, o, Len(log))
    /\ log' = Append(log, o)
    /\ UNCHANGED <<phase, server, chainVars, bodyVars, dataVars>>

\* ServerBuilder::serve: Server::from(self).serve(addr)
Serve ==
    /\ phase = "build"
    /\ Len(builder.router.scopes) = 1
    /\ server' = Server_from(builder)
    /\ phase' = "serving"
    /\ UNCHANGED <<builder, log, chainVars, bodyVars, dataVars>>

\* the state after ServerBuilder::new(data)
Init ==
    /\ phase = "build"
    /\ builder = ServerBuilder_new(UnitData)
    /\ log = LogOf(<<>>)
    /\ server = NoServer
    /\ req = NoRequest
    /\ ctx = NoCtx
    /\ pc = "idle"
    /\ stack = <<>>
    /\ argi = 0
    /\ ret = NoResponse
    /\ trace = <<>>
    /\ responses = <<>>
    /\ fut = NoFut
    /\ obs = <<>>
    /\ DataInit

(***************************************************************************)
(* SpecBuild: every build of bounded length                                *)
(***************************************************************************)
BuildPatterns == { <<"a">>, <<"{}">> }
BuildOps ==
    { OpMiddleware, OpNest(<<"api">>), OpEnd }
    \cup { OpAt(p, m, e) : p \in BuildPatterns, m \in Methods, e \in {"hello", "json"} }

BuildNext ==
    \/ \E o \in BuildOps : Len(log) <= MaxBuildOps /\ BuilderCall(o)
    \/ Serve

SpecBuild == Init /\ [][BuildNext]_vars

(***************************************************************************)
(* Spec: the applications below, built and then serving requests           *)
(***************************************************************************)
\* examples/hello.rs
HelloApp == << OpAt(<<>>, "GET", "hello") >>
\* examples/default_headers.rs
DefaultHeadersApp == << OpMiddleware, OpAt(<<>>, "GET", "hello") >>
\* examples/messages.rs, the route of new_message, and a capture route
MessagesApp ==
    << OpAt(<<"message">>, "POST", "new_message"),
       OpAt(<<"files", "{}">>, "POST", "bytes"),
       OpAt(<<"files", "index">>, "GET", "hello") >>
\* one route per body extractor
ExtractorsApp ==
    << OpAt(<<"json">>, "POST", "json"), OpAt(<<"form">>, "POST", "form"),
       OpAt(<<"str">>, "POST", "str"), OpAt(<<"lossy">>, "POST", "lossy"),
       OpAt(<<"upload">>, "POST", "upload") >>
\* middleware before and after resources, and in a nested router
NestedApp ==
    << OpMiddleware, OpAt(<<"a">>, "POST", "upload"), OpNest(<<"api">>),
       OpMiddleware, OpAt(<<"x">>, "POST", "json"), OpEnd,
       OpAt(<<"b">>, "GET", "hello"), OpMiddleware >>

\* patterns with two captures, and a literal segment beside a capture
RoutesApp ==
    << OpAt(<<"{}", "by", "{}">>, "GET", "hello"), OpAt(<<"u", "x">>, "GET", "hello") >>

\* handlers that return Json and Form values, and one that takes the body
\* before the app data
ReplyApp ==
    << OpAt(<<"report">>, "GET", "to_json"), OpAt(<<"export">>, "GET", "to_form"),
       OpAt(<<"echo">>, "POST", "json_data") >>

Apps ==
    { HelloApp, DefaultHeadersApp, MessagesApp, ExtractorsApp, NestedApp, RoutesApp,
      ReplyApp }

AppOps == UNION { { a[i] : i \in 1..Len(a) } : a \in Apps }

ReqPaths ==
    { <<>>, <<"nope">>, <<"message">>, <<"files", "f1">>, <<"files", "index">>,
      <<"files">>, <<"json">>, <<"form">>, <<"str">>, <<"lossy">>, <<"upload">>,
      <<"a">>, <<"api", "x">>, <<"api">>, <<"b">>,
      <<"v", "by", "7">>, <<"u", "by", "7">>, <<"u", "x">>,
      <<"report">>, <<"export">>, <<"echo">> }

ReqStreams ==
    SeqsUpTo(Chunks, 1)
    \cup { <<ChunkOk(<<49>>), ChunkOk(<<200>>)>>, <<ChunkOk(<<49>>), ChunkErr>> }

\* the number of writes requested of the Database
MaxWrites == 2

\* the endpoints that write to the Database
Writers == {"new_message", "set_message"}

\* requests that write are sent while fewer than MaxWrites were made
Admitted(path, method) ==
    route(server.router, path, method).endpoint \in Writers => Len(history) < MaxWrites

Next ==
    \/ \E o \in AppOps :
          /\ BuilderCall(o)
          /\ \E a \in Apps : IsPrefix(Tail(log'), a)
    \/ Serve /\ Tail(log) \in Apps
    \/ \E path \in ReqPaths, method \in Methods, ct \in ContentTypes, s \in ReqStreams :
          Call(path, method, ct, s) /\ Admitted(path, method)
    \/ \E n \in 0..MaxDownstream : MwHandle(n)
    \/ Terminal
    \/ EpExtract
    \/ FutPoll
    \/ EpCollect
    \/ EpInvoke
    \/ MwResume
    \/ Respond
    \/ Deliver
    \/ Unwind

Spec == Init /\ [][Next]_vars

(***************************************************************************)
(* SpecMessages: examples/messages.rs serving one request after another    *)
(***************************************************************************)
\* main: the three routes of the example
MessagesMain ==
    << OpAt(<<"message">>, "POST", "new_message"),
       OpAt(<<"message", "{}">>, "GET", "get_message"),
       OpAt(<<"message", "{}">>, "POST", "set_message") >>

DatabaseData == "Database"

MsgPaths ==
    { <<"message">>, <<"message", "0">>, <<"message", "1">>, <<"message", "2">>,
      <<"message", "x">> }

\* request bodies: the messages 1 and 2, no JSON at all, a failing stream
MsgStreams ==
    { <<ChunkOk(<<49>>)>>, <<ChunkOk(<<50>>)>>, <<>>, <<ChunkOk(<<49>>), ChunkErr>> }

\* ServerBuilder::new(Database::new()), the routes of main, serve
MsgInit ==
    /\ phase = "serving"
    /\ builder = Build(DatabaseData, MessagesMain)
    /\ log = LogOf(MessagesMain)
    /\ server = Server_from(builder)
    /\ req = NoRequest
    /\ ctx = NoCtx
    /\ pc = "idle"
    /\ stack = <<>>
    /\ argi = 0
    /\ ret = NoResponse
    /\ trace = <<>>
    /\ responses = <<>>
    /\ fut = NoFut
    /\ obs = <<>>
    /\ DataInit

MsgNext ==
    \/ \E path \in MsgPaths, method \in Methods, s \in MsgStreams :
          /\ method = "GET" => s = <<>>
          /\ Call(path, method, NoHeader, s)
          /\ Admitted(path, method)
    \/ MwHandle(1)
    \/ Terminal
    \/ EpExtract
    \/ FutPoll
    \/ EpCollect
    \/ EpInvoke
    \/ MwResume
    \/ Respond
    \/ Deliver

SpecMessages == MsgInit /\ [][MsgNext]_vars

(***************************************************************************)
(* SpecConcurrent: requests of examples/messages.rs handled at once, each  *)
(* task calling the Database through a clone of the same handle            *)
(***************************************************************************)
\* the Database calls of the handlers: insert(msg), get(id), set(id, msg)
TaskCalls ==
    { [op |-> "insert", id |-> 0, msg |-> m] : m \in {1, 2} }
    \cup { [op |-> "get", id |-> i, msg |-> 0] : i \in {0, 1} }
    \cup { [op |-> "set", id |-> i, msg |-> 3] : i \in {0, 1} }

\* (fault: the lock is granted while another task holds it)
Mutex_lock_NoExclusion(m, t) == TRUE
\* Mutex::lock: granted to t when no task holds the Mutex
Mutex_lock(m, t) == m = 0

\* Server::call clones the data for the request; its handler calls the Database
TaskCall(t, c) ==
    /\ tasks[t].pc = "idle"
    /\ tasks' = [tasks EXCEPT ![t] = [IdleTask EXCEPT !.pc = "lock", !.op = c.op,
                                                      !.id = c.id, !.msg = c.msg]]
    /\ UNCHANGED <<store, mutex, history, buildVars, chainVars, bodyVars>>

\* self.contents.lock().unwrap()
TaskLock(t) ==
    /\ tasks[t].pc = "lock"
    /\ Mutex_lock(mutex, t)
    /\ mutex' = t
    /\ tasks' = [tasks EXCEPT ![t].pc = "locked"]
    /\ UNCHANGED <<store, history, buildVars, chainVars, bodyVars>>

\* insert: table.push(msg)
TaskPush(t) ==
    /\ tasks[t].pc = "locked"
    /\ tasks[t].op = "insert"
    /\ store' = Append(store, tasks[t].msg)
    /\ history' = Append(history, Write("insert", Len(store), tasks[t].msg))
    /\ tasks' = [tasks EXCEPT ![t].pc = "pushed", ![t].seen = Len(history)]
    /\ UNCHANGED <<mutex, buildVars, chainVars, bodyVars>>

\* insert: table.len() - 1
TaskLen(t) ==
    /\ tasks[t].pc = "pushed"
    /\ tasks' = [tasks EXCEPT ![t].pc = "unlock", ![t].ret = Len(store) - 1,
                              ![t].found = TRUE]
    /\ UNCHANGED <<store, mutex, history, buildVars, chainVars, bodyVars>>

\* get: table.get(id).cloned()
TaskGet(t) ==
    /\ tasks[t].pc = "locked"
    /\ tasks[t].op = "get"
    /\ tasks' = [tasks EXCEPT ![t].pc = "unlock",
                              ![t].ret = Database_get(store, tasks[t].id).val,
                              ![t].found = Database_get(store, tasks[t].id).some,
                              ![t].seen = Len(history)]
    /\ UNCHANGED <<store, mutex, history, buildVars, chainVars, bodyVars>>

\* set: table.get_mut(id), and the assignment if it is Some
TaskSet(t) ==
    /\ tasks[t].pc = "locked"
    /\ tasks[t].op = "set"
    /\ store' = Database_set(store, tasks[t].id, tasks[t].msg).table
    /\ history' = Append(history, Write("set", tasks[t].id, tasks[t].msg))
    /\ tasks' = [tasks EXCEPT ![t].pc = "unlock",
                              ![t].found = Database_set(store, tasks[t].id, tasks[t].msg).ret,
                              ![t].seen = Len(history)]
    /\ UNCHANGED <<mutex, buildVars, chainVars, bodyVars>>

\* the method returns: the MutexGuard is dropped
TaskUnlock(t) ==
    /\ tasks[t].pc = "unlock"
    /\ mutex' = 0
    /\ tasks' = [tasks EXCEPT ![t].pc = "done"]
    /\ UNCHANGED <<store, history, buildVars, chainVars, bodyVars>>

ConcurrentNext ==
    \/ \E t \in Tasks, c \in TaskCalls : TaskCall(t, c)
    \/ \E t \in Tasks : TaskLock(t)
    \/ \E t \in Tasks : TaskPush(t)
    \/ \E t \in Tasks : TaskLen(t)
    \/ \E t \in Tasks : TaskGet(t)
    \/ \E t \in Tasks : TaskSet(t)
    \/ \E t \in Tasks : TaskUnlock(t)

SpecConcurrent == MsgInit /\ [][ConcurrentNext]_vars

(***************************************************************************)
(* SpecBody: one Request, and the body reads a handler may make on it      *)
(***************************************************************************)
\* the caller drops an extractor's future that has not finished, maybe never
\* polled: the body it holds goes with it
FutDrop ==
    /\ fut.st \in {"created", "reading"}
    /\ fut.kind \in BodyKinds
    /\ trace' = Append(trace, Event("dropped", 0, fut.kind, NoResponse))
    /\ fut' = NoFut
    /\ UNCHANGED <<req, obs, ctx, pc, stack, argi, ret, responses, buildVars, dataVars>>

BodyInit ==
    /\ phase = "serving"
    /\ builder = Build(UnitData, HelloApp)
    /\ log = LogOf(HelloApp)
    /\ server = Server_from(builder)
    /\ \E ct \in ContentTypes :
       \E b \in { Body_from_hyper(s) : s \in Streams }
                  \cup { Body_from_vec(v) : v \in ChunkPayloads } :
          req = Request(<<>>, "POST", ct, b)
    /\ ctx = NoCtx
    /\ pc = "handler"
    /\ stack = <<>>
    /\ argi = 0
    /\ ret = NoResponse
    /\ trace = <<>>
    /\ responses = <<>>
    /\ fut = NoFut
    /\ obs = <<>>
    /\ DataInit

BodyNext ==
    \/ \E kind \in BodyKinds : BodyExtract(kind)
    \/ BodyRead
    \/ FutPoll
    \/ FutDrop
    \/ BodyCollect

SpecBody == BodyInit /\ [][BodyNext]_vars

(***************************************************************************)
(* Properties                                                              *)
(***************************************************************************)
ObsIdx == 1..Len(obs)

\* a body extractor's extract() was called before the i-th read finished
TakenBefore(i) == \E j \in 1..(i - 1) : obs[j].kind \in BodyKinds

\* C1: once a body extractor's extract() has been called on a Request, the
\* Request holds Body::empty(), and every later read of its body (a direct
\* read_to_vec or another body extractor) reads no chunk, succeeds as a read,
\* and observes zero bytes.
C1_ConsumeOnce ==
    /\ \A i \in ObsIdx :
          TakenBefore(i) =>
             /\ obs[i].read = "ok"
             /\ obs[i].bytes = <<>>
             /\ obs[i].nread = 0
             /\ obs[i].given = Body_empty
    /\ (fut.kind \in BodyKinds \/ \E j \in ObsIdx : obs[j].kind \in BodyKinds)
          => req.body = Body_empty

\* a Json extraction read a byte of the stream, and a Bytes extraction on the
\* same Request came after it
C1_Witness ==
    /\ Len(obs) = 2
    /\ obs[1].kind = "Json" /\ obs[1].bytes = <<49>> /\ obs[1].nread = 1
    /\ obs[2].kind = "Bytes" /\ obs[2].res.ok

\* the chunks read_to_vec takes from a body: up to and including the first
\* Err chunk, none from a Fixed body
RECURSIVE ChunksUntilErr(_)
ChunksUntilErr(s) ==
    IF s = <<>> THEN 0
    ELSE IF ~Head(s).ok THEN 1
    ELSE 1 + ChunksUntilErr(Tail(s))

MissingBoundary(o) == o.kind = "MultipartForm" /\ ~o.boundary.some

\* C5 as stated: a multipart extraction whose content-type is missing or has
\* no boundary= parameter fails without reading any chunk of the body.
C5_NoChunkReadWithoutBoundary ==
    \A i \in ObsIdx : MissingBoundary(obs[i]) => obs[i].nread = 0

\* C5 amended: the content-type header is inspected when extract() is called,
\* before any chunk is read, but the missing boundary is reported only after
\* read_to_vec has run: the stream is read up to its end or its first Err
\* chunk, and the extraction then fails with 400.
C5_BoundaryCheckedAfterRead ==
    /\ \A i \in ObsIdx :
          MissingBoundary(obs[i]) =>
             /\ ~obs[i].res.ok
             /\ obs[i].res.status = BAD_REQUEST
             /\ obs[i].nread = ChunksUntilErr(obs[i].given.stream)
    /\ (fut.kind = "MultipartForm" /\ fut.st = "created") =>
          /\ fut.nread = 0
          /\ fut.boundary.some =
                /\ req.content_type.present
                /\ to_str_ok(req.content_type.toks)
                /\ \E k \in 1..Len(req.content_type.toks) :
                      req.content_type.toks[k] = "boundary="

\* a multipart extraction without boundary that read two chunks and failed
C5_Witness ==
    /\ Len(obs) >= 1
    /\ MissingBoundary(obs[1])
    /\ obs[1].nread = 2
    /\ obs[1].read = "ok"
    /\ ~obs[1].res.ok

RECURSIVE Concat(_)
Concat(s) == IF s = <<>> THEN <<>> ELSE Head(s).bytes \o Concat(Tail(s))

AllOk(s) == \A k \in 1..Len(s) : s[k].ok

\* C6: a read of a streaming body whose chunks are all Ok returns Ok with
\* exactly the chunks' bytes concatenated in delivery order, and has read
\* every chunk once.
C6_ConcatInOrder ==
    \A i \in ObsIdx :
       (obs[i].given.kind = "Streaming" /\ AllOk(obs[i].given.stream)) =>
          /\ obs[i].read = "ok"
          /\ obs[i].bytes = Concat(obs[i].given.stream)
          /\ obs[i].nread = Len(obs[i].given.stream)

\* a stream of two different chunks was read into their concatenation
C6_Witness ==
    /\ Len(obs) >= 1
    /\ obs[1].given = Streaming(<<ChunkOk(<<49>>), ChunkOk(<<200>>)>>)
    /\ obs[1].bytes = <<49, 200>>

(***************************************************************************)
(* Properties of Server::call and the chain                                *)
(***************************************************************************)
\* a pattern matches a path structurally: segment by segment, `{}` matching any
Matches(pattern, path) ==
    /\ Len(pattern) = Len(path)
    /\ \A k \in 1..Len(path) : pattern[k] = "{}" \/ pattern[k] = path[k]

PathRegistered == \E p \in server.router.patterns : Matches(p, req.path)

InFlight == pc # "idle"

\* nothing of the chain ran: no middleware, no extractor, no endpoint
NothingRan == trace = <<>> /\ obs = <<>> /\ fut = NoFut /\ stack = <<>>

\* C2: a request whose path matches no registered pattern, whatever its method,
\* is answered with status 404 and an empty body, and no middleware, extractor
\* or endpoint runs for it.
C2_UnroutedIs404 ==
    (InFlight /\ ~PathRegistered) =>
       /\ pc = "done"
       /\ responses = <<Response(NOT_FOUND, <<>>, "server", 0)>>
       /\ NothingRan

\* POST /nope was answered by an application that has routes
C2_Witness ==
    /\ pc = "done"
    /\ req.path = <<"nope">>
    /\ req.method = "POST"
    /\ server.router.patterns # {}
    /\ responses # <<>>

\* the resources whose pattern matches the request's path
MatchingResources ==
    { i \in 1..Len(server.router.table) :
        Matches(server.router.table[i].pattern, req.path) }

\* C9: a request whose path matches a registered pattern, but whose method is
\* bound on no Resource matching that path, is answered like a path miss:
\* 404, empty body, and nothing of the chain runs.
C9_UnboundMethodIs404 ==
    (/\ InFlight
     /\ MatchingResources # {}
     /\ \A i \in MatchingResources :
           server.router.table[i].endpoints[req.method] = NoEndpoint) =>
       /\ pc = "done"
       /\ responses = <<Response(NOT_FOUND, <<>>, "server", 0)>>
       /\ NothingRan

\* GET /message, where only POST is bound, was answered
C9_Witness ==
    /\ pc = "done"
    /\ req.path = <<"message">>
    /\ req.method = "GET"
    /\ <<"message">> \in server.router.patterns
    /\ responses # <<>>

\* the middleware slice the router resolved for the request in flight
Slice == route(server.router, req.path, req.method).middleware

Shape(t) == [i \in 1..Len(t) |-> <<t[i].ev, t[i].who>>]

\* every middleware that ran called downstream exactly once, and no extractor
\* failed
AllCalledOnce == \A i \in 1..Len(trace) : trace[i].ev \in {"pre", "post", "endpoint"}

\* pre-logic outer to inner, the endpoint, post-logic inner to outer
ExpectedOrder(mws) ==
    LET n == Len(mws)
    IN  [i \in 1..(2 * n + 1) |->
            IF i <= n THEN <<"pre", mws[i]>>
            ELSE IF i = n + 1 THEN <<"endpoint", 0>>
            ELSE <<"post", mws[2 * n + 2 - i]>>]

\* C3: when every middleware of the resolved chain calls downstream once, what
\* runs is, at every moment, a prefix of: the pre-logic of each middleware in
\* chain order, the endpoint, the post-logic of each middleware in reverse
\* order; and the whole of it once the Response is returned.
C3_MiddlewareOrder ==
    (InFlight /\ trace # <<>> /\ AllCalledOnce) =>
       /\ IsPrefix(Shape(trace), ExpectedOrder(Slice))
       /\ pc = "done" => Shape(trace) = ExpectedOrder(Slice)

\* a chain of the RootLogger and two more middleware ran to the end in order
C3_Witness ==
    /\ pc = "done"
    /\ AllCalledOnce
    /\ Len(Slice) = 3
    /\ Len(trace) = 7
    /\ trace[4].ev = "endpoint"

FailedObs == { i \in ObsIdx : ~obs[i].res.ok }
EventsOf(ev) == { i \in 1..Len(trace) : trace[i].ev = ev }

C7_OneResponse ==
    /\ Len(responses) <= 1
    /\ pc = "done" <=> Len(responses) = 1

\* a middleware called downstream twice, the endpoint ran twice, and one
\* Response was returned
C7_Witness ==
    /\ pc = "done"
    /\ EventsOf("again") # {}
    /\ Cardinality(EventsOf("endpoint")) = 2
    /\ Len(responses) = 1

\* the position of middleware m in the resolved slice
PosInSlice(m) == CHOOSE k \in 1..Len(Slice) : Slice[k] = m

\* C8: when a middleware returns a Response without calling downstream,
\* nothing downstream of it runs for that call: the next thing to run is the
\* post-logic (or the next downstream call) of the middleware just before it
\* in the chain, which sees exactly the Response supplied.
C8_ShortCircuit ==
    /\ \A i \in EventsOf("short") :
          LET m == trace[i].who
          IN  /\ trace[i - 1] = Event("pre", m, "", NoResponse)
              /\ IF i < Len(trace)
                 THEN /\ trace[i + 1].ev \in {"post", "again"}
                      /\ trace[i + 1].who = Slice[PosInSlice(m) - 1]
                      /\ trace[i + 1].saw = Response(403, <<>>, "middleware", m)
                 ELSE /\ pc = "ret"
                      /\ ret = Response(403, <<>>, "middleware", m)
                      /\ fut = NoFut
    /\ (EventsOf("short") # {} /\ EventsOf("again") = {}) =>
          /\ EventsOf("endpoint") = {}
          /\ obs = <<>>
          /\ Cardinality(EventsOf("short")) = 1
          /\ \A i \in EventsOf("short"), j \in EventsOf("pre") : j < i

\* the second middleware of a chain of three answered itself, and the first
\* saw its Response
C8_Witness ==
    /\ pc = "done"
    /\ Len(Slice) = 3
    /\ Shape(trace) = << <<"pre", Slice[1]>>, <<"pre", Slice[2]>>,
                         <<"short", Slice[2]>>, <<"post", Slice[1]>> >>
    /\ responses = <<Response(403, <<>>, "middleware", Slice[2])>>

(***************************************************************************)
(* Properties of the build                                                 *)
(***************************************************************************)
CountOps(op, i, j) == Cardinality({ e \in (i + 1)..j : log[e].op = op })

\* the nested routers opened before call k and not yet closed at call k
OpenAt(k) ==
    { i \in 1..(k - 1) :
        /\ log[i].op = "nest"
        /\ \A e \in (i + 1)..(k - 1) :
              log[e].op = "end" => CountOps("end", i, e) <= CountOps("nest", i, e) }

Max(S) == CHOOSE x \in S : \A y \in S : y <= x
Min(S) == CHOOSE x \in S : \A y \in S : x <= y

\* the router call k was made on: the innermost open nested router, 0 for
\* the top-level router
ScopeOf(k) == Max(OpenAt(k) \cup {0})

RECURSIVE SortedSeq(_)
SortedSeq(S) == IF S = {} THEN <<>> ELSE <<Min(S)>> \o SortedSeq(S \ {Min(S)})

RECURSIVE PrefixOf(_)
PrefixOf(q) == IF q = <<>> THEN <<>> ELSE log[Head(q)].pattern \o PrefixOf(Tail(q))

\* the full pattern registered by the `at` call k
FullPattern(k) == PrefixOf(SortedSeq(OpenAt(k))) \o log[k].pattern

\* the call that first registered the Resource at pattern p
FirstReg(p) == Min({ k \in 1..Len(log) : log[k].op = "at" /\ FullPattern(k) = p })

\* the middleware calls made before call k on the router of call k or on a
\* router it is nested in
AppliesTo(k) ==
    { j \in 1..(k - 1) :
        log[j].op = "middleware" /\ ScopeOf(j) \in OpenAt(k) \cup {0} }

ProbePaths ==
    { <<"a">>, <<"zz">>, <<"api", "a">>, <<"api", "zz">>, <<"api", "api", "a">>,
      <<"api", "api", "zz">> }

RECURSIVE CapturesFrom(_, _, _)
CapturesFrom(P, path, k) ==
    IF k > Len(P) THEN <<>>
    ELSE (IF P[k] = "{}" THEN <<path[k]>> ELSE <<>>) \o CapturesFrom(P, path, k + 1)

Captures(P, path) == CapturesFrom(P, path, 1)

\* some registered pattern continues P's prefix before a `{}` of P with the
\* literal segment the path has there: the descent takes the literal
Shadowed(P, path) ==
    \E k \in 1..Len(P) :
       /\ P[k] = "{}"
       /\ \E Q \in server.router.patterns :
             /\ Len(Q) >= k
             /\ SubSeq(Q, 1, k - 1) = SubSeq(P, 1, k - 1)
             /\ Q[k] = path[k]

\* the endpoint registered for the method on the Resource at pattern P
BoundAt(P, method) ==
    LET i == CHOOSE j \in 1..Len(server.router.table) :
                server.router.table[j].pattern = P
    IN  server.router.table[i].endpoints[method]

\* C11 as stated: for every registered pattern P the request's path matches
\* structurally (and that binds the request's method), the request is routed
\* with the captures of P: the path segments at P's `{}` positions, in order.
C11_CapturesOfEveryMatchingPattern ==
    InFlight =>
       \A P \in server.router.patterns :
          (Matches(P, req.path) /\ BoundAt(P, req.method) # NoEndpoint) =>
             /\ ctx.endpoint # NoEndpoint
             /\ ctx.params = Captures(P, req.path)

\* C11 amended: a routed request carries the captures of the pattern the
\* descent resolved, which matches its path structurally: the path segments at
\* that pattern's `{}` positions, in order.  A registered pattern P that
\* matches the path is the one resolved whenever no registered pattern has
\* the path's literal segment where P has a `{}` after the same prefix.
C11_CapturesOfResolvedPattern ==
    InFlight =>
       /\ ctx.endpoint # NoEndpoint =>
             \E P \in server.router.patterns :
                /\ Matches(P, req.path)
                /\ ctx.endpoint = BoundAt(P, req.method)
                /\ ctx.params = Captures(P, req.path)
                /\ Len(ctx.params) = Cardinality({ k \in 1..Len(P) : P[k] = "{}" })
       /\ \A P \in server.router.patterns :
             (/\ Matches(P, req.path)
              /\ ~Shadowed(P, req.path)
              /\ BoundAt(P, req.method) # NoEndpoint) =>
                /\ ctx.endpoint = BoundAt(P, req.method)
                /\ ctx.params = Captures(P, req.path)

\* GET /v/by/7 was routed to {}/by/{} with the captures v and 7, in that order
C11_Witness ==
    /\ pc = "done"
    /\ req.path = <<"v", "by", "7">>
    /\ <<"{}", "by", "{}">> \in server.router.patterns
    /\ ctx.params = <<"v", "7">>
    /\ responses = <<Response(OK, <<>>, "hello", 0)>>

(***************************************************************************)
(* Properties of the messages example                                      *)
(***************************************************************************)
\* the number of inserts among the writes h
Inserts(h) == Cardinality({ j \in 1..Len(h) : h[j].op = "insert" })

\* the table the writes h leave behind: an insert appends, a set replaces the
\* message at an index in range and does nothing otherwise
RECURSIVE Replay(_)
Replay(h) ==
    IF h = <<>> THEN <<>>
    ELSE LET t == Replay(SubSeq(h, 1, Len(h) - 1))
             w == h[Len(h)]
         IN  IF w.op = "insert" THEN Append(t, w.msg)
             ELSE IF w.id < Len(t) THEN [t EXCEPT ![w.id + 1] = w.msg]
             ELSE t

\* the writes that put a message at index i: the insert that returned i, and
\* every set of i made after it
WritesAt(i) ==
    { j \in 1..Len(history) :
        /\ history[j].id = i
        /\ \/ history[j].op = "insert"
           \/ history[j].op = "set" /\ i < Inserts(SubSeq(history, 1, j - 1)) }

\* the index a /message/{i} request names
PathId == (CHOOSE n \in 1..Len(Numerals) : Numerals[n] = req.path[2]) - 1

\* the request's handler ran and the Response was returned
Answered(e) == pc = "done" /\ ctx.endpoint = e /\ EventsOf("endpoint") # {}

\* C12: the store is what the writes made so far leave behind; the k-th insert
\* (from 0) returns k and is stored at index k; GET /message/{i} answers 200
\* with the message last written at i when i is less than the number of
\* inserts, and 404 otherwise; POST /message/{i} answers 200 when i is in
\* range, and 404, the store unchanged, when it is not.
C12_MessagesStore ==
    /\ store = Replay(history)
    /\ Len(store) = Inserts(history)
    /\ \A j \in 1..Len(history) :
          history[j].op = "insert" =>
             history[j].id = Inserts(SubSeq(history, 1, j - 1))
    /\ Answered("new_message") =>
          responses = <<Response(OK, <<48 + Inserts(history) - 1>>, "new_message", 0)>>
    /\ Answered("get_message") =>
          IF PathId < Inserts(history)
          THEN responses =
                  <<Response(OK, <<48 + history[Max(WritesAt(PathId))].msg>>,
                             "get_message", 0)>>
          ELSE responses = <<Response(NOT_FOUND, <<>>, "get_message", 0)>>
    /\ Answered("set_message") =>
          IF PathId < Inserts(history)
          THEN responses = <<Response(OK, <<>>, "set_message", 0)>>
          ELSE responses = <<Response(NOT_FOUND, <<>>, "set_message", 0)>>

\* message 1 was inserted at index 0 and set to 2, and GET /message/0 was
\* answered with 2
C12_Witness ==
    /\ Answered("get_message")
    /\ req.path = <<"message", "0">>
    /\ history = <<Write("insert", 0, 1), Write("set", 0, 2)>>
    /\ responses = <<Response(OK, <<50>>, "get_message", 0)>>

(***************************************************************************)
(* Properties of the conversion into a Response                            *)
(***************************************************************************)
\* C13: when the serialization of a handler's Json or Form value fails, the
\* request's task is not aborted: the Response that goes up the chain for the
\* failed conversion is a server error (status 500).
C13_SerializationFailureIs500 ==
    \A i \in EventsOf("serialize_failed") :
       /\ pc # "panicked"
       /\ i = Len(trace) => ret.status = 500
       /\ i < Len(trace) => trace[i + 1].saw.status = 500

(***************************************************************************)
(* Properties of Body::read_to_vec                                         *)
(***************************************************************************)
\* the position of the first Err chunk of a stream that has one
FirstErr(s) == Min({ k \in 1..Len(s) : ~s[k].ok })

\* the read observed last was made on the Request's own body, and nothing
\* has touched the body since
LastReadInPlace ==
    /\ obs # <<>>
    /\ fut.st = "none"
    /\ trace = <<>>
    /\ obs[Len(obs)].kind = "read_to_vec"

\* C14: a read of a streaming body that holds an Err chunk fails with the
\* error of the first such chunk, returns none of the bytes of the chunks
\* before it, and has taken no chunk after it: the chunks after the failing
\* one are still in the stream.
C14_ReadFailsAtFirstErr ==
    /\ \A i \in ObsIdx :
          (obs[i].given.kind = "Streaming" /\ ~AllOk(obs[i].given.stream)) =>
             /\ obs[i].read = "err"
             /\ ~obs[i].res.ok
             /\ obs[i].bytes = <<>>
             /\ obs[i].res.data = <<>>
             /\ obs[i].nread = FirstErr(obs[i].given.stream)
    /\ LET o == obs[Len(obs)]
       IN  (LastReadInPlace /\ o.read = "err") =>
              req.body = Streaming(SubSeq(o.given.stream, FirstErr(o.given.stream) + 1,
                                          Len(o.given.stream)))

\* read_to_vec took the chunk "1", then failed on the Err chunk, and returned
\* no bytes
C14_Witness ==
    /\ Len(obs) = 1
    /\ obs[1].kind = "read_to_vec"
    /\ obs[1].given = Streaming(<<ChunkOk(<<49>>), ChunkErr>>)
    /\ obs[1].read = "err"
    /\ obs[1].nread = 2
    /\ obs[1].bytes = <<>>

(***************************************************************************)
(* Properties of the extractors' effect on the Request                     *)
(***************************************************************************)
\* the body reads observed for this request that came from a body extractor
BodyObs == { i \in ObsIdx : obs[i].kind \in BodyKinds }

\* C15: the step in which AppData is extracted succeeds at once and changes
\* neither the Request (its body included) nor the RouteMatch; the Request's
\* body changes in no step of a request other than a body extractor's
\* extract(), which is handed the body whole; so the first body extractor of
\* a request, before or after AppData among the arguments, is given the
\* streaming body the request came with, never the empty placeholder.
C15_AppDataLeavesRequest ==
    /\ [](BodyObs # {} => obs[Min(BodyObs)].given.kind = "Streaming")
    /\ [][/\ (fut.st = "none" /\ fut'.kind = "AppData") =>
                /\ fut'.st = "ready" /\ fut'.res.ok
                /\ req' = req
                /\ ctx' = ctx
          /\ (InFlight /\ pc' # "idle" /\ req' # req) =>
                /\ fut'.kind \in BodyKinds
                /\ fut'.st = "created"
                /\ fut'.body = req.body
                /\ req' = [req EXCEPT !.body = Body_empty]]_vars

\* new_message's arguments: AppData was extracted first, and Json was then
\* given the whole body of the request
C15_Witness ==
    /\ pc = "done"
    /\ ctx.endpoint = "new_message"
    /\ Len(obs) = 2
    /\ obs[1].kind = "AppData"
    /\ obs[2].kind = "Json"
    /\ obs[2].given = Streaming(<<ChunkOk(<<49>>)>>)
    /\ obs[2].bytes = <<49>>
    /\ store = <<1>>

\* C16: a body extractor takes the body out of the Request when extract() is
\* called: before the first poll of its future the Request already holds the
\* empty buffered body and the future holds the whole body, unread.  The body
\* never comes back: not in any later step, not after an extraction that
\* failed (read error, decode error, missing boundary), not after the future
\* was dropped before it finished.
C16_BodyTakenAtExtract ==
    /\ [](/\ (fut.kind \in BodyKinds /\ fut.st = "created") =>
                /\ req.body = Body_empty
                /\ fut.nread = 0
                /\ fut.body = fut.given
          /\ (\E i \in BodyObs : ~obs[i].res.ok) => req.body = Body_empty
          /\ EventsOf("dropped") # {} => req.body = Body_empty)
    /\ [][(fut.kind \in BodyKinds \/ BodyObs # {} \/ EventsOf("dropped") # {}) =>
             req'.body = Body_empty]_vars

\* a Json extraction read the body and failed to decode it, a second
\* extractor's future was dropped, and the Request holds the empty body
C16_Witness ==
    /\ Len(obs) = 1
    /\ obs[1].kind = "Json"
    /\ obs[1].given = Streaming(<<ChunkOk(<<200>>)>>)
    /\ obs[1].read = "ok"
    /\ ~obs[1].res.ok
    /\ EventsOf("dropped") # {}
    /\ req.body = Body_empty

\* the reads i..j were all made on the Request's own body
InPlace(i, j) == \A k \in i..j : obs[k].kind = "read_to_vec"

\* C17: read_to_vec on a buffered body succeeds with a copy of its bytes
\* and reads no chunk; the body is left as it was, so successive reads of the
\* same buffered body are given the same body and all return the same bytes.
C17_FixedReadRepeats ==
    /\ \A i \in ObsIdx :
          (obs[i].kind = "read_to_vec" /\ obs[i].given.kind = "Fixed") =>
             /\ obs[i].read = "ok"
             /\ obs[i].res.ok
             /\ obs[i].res.data = obs[i].given.bytes
             /\ obs[i].bytes = obs[i].given.bytes
             /\ obs[i].nread = 0
    /\ \A i, j \in ObsIdx :
          (i < j /\ InPlace(i, j) /\ obs[i].given.kind = "Fixed" /\ trace = <<>>) =>
             /\ obs[j].given = obs[i].given
             /\ obs[j].bytes = obs[i].bytes
    /\ (/\ obs # <<>>
        /\ InPlace(1, Len(obs))
        /\ obs[1].given.kind = "Fixed"
        /\ fut.kind \notin BodyKinds
        /\ trace = <<>>) => req.body = obs[1].given

\* two reads of the buffered body "1\xC8" both returned its two bytes, and
\* the body still holds them
C17_Witness ==
    /\ Len(obs) = 2
    /\ InPlace(1, 2)
    /\ obs[1].given = Fixed(<<49, 200>>)
    /\ obs[1].bytes = <<49, 200>>
    /\ obs[2].bytes = <<49, 200>>
    /\ req.body = Fixed(<<49, 200>>)

(***************************************************************************)
(* Properties of the Database under concurrent requests                    *)
(***************************************************************************)
\* the tasks whose call of `op` has returned
Returned(op) == { t \in Tasks : tasks[t].op = op /\ tasks[t].pc \in {"unlock", "done"} }

\* the inserts that have pushed their message
Pushed == { t \in Tasks : tasks[t].op = "insert"
                          /\ tasks[t].pc \in {"pushed", "unlock", "done"} }

\* the sets of index i among the writes a+1 .. b
SetsBetween(i, a, b) ==
    { j \in (a + 1)..b : history[j].op = "set" /\ history[j].id = i }

\* C18: whatever the interleaving of the tasks, the inserts that returned
\* have returned pairwise distinct indices; each returned the index its own
\* message was stored at, which is the number of inserts made before it; the
\* store is as long as the number of inserts made, and holds what the writes
\* leave behind in lock order; a get of the index an insert returned, made
\* after that insert, finds the inserted message, or the message of the last
\* set of that index made between the two.
C18_InsertsAtomic ==
    /\ \A t, u \in Returned("insert") : t # u => tasks[t].ret # tasks[u].ret
    /\ Len(store) = Cardinality(Pushed)
    /\ store = Replay(history)
    /\ \A t \in Returned("insert") :
          /\ tasks[t].ret = Inserts(SubSeq(history, 1, tasks[t].seen))
          /\ history[tasks[t].seen + 1] = Write("insert", tasks[t].ret, tasks[t].msg)
    /\ \A g \in Returned("get"), t \in Returned("insert") :
          (tasks[g].id = tasks[t].ret /\ tasks[g].seen > tasks[t].seen) =>
             LET sets == SetsBetween(tasks[g].id, tasks[t].seen + 1, tasks[g].seen)
             IN  /\ tasks[g].found
                 /\ tasks[g].ret = IF sets = {} THEN tasks[t].msg
                                   ELSE history[Max(sets)].msg

\* two inserts returned 0 and 1 in the order they took the lock, and a get
\* of index 1 then found the message of the second one
C18_Witness ==
    \E t, u, g \in Tasks :
       /\ tasks[t].pc = "done" /\ tasks[t].op = "insert" /\ tasks[t].msg = 1
       /\ tasks[u].pc = "done" /\ tasks[u].op = "insert" /\ tasks[u].msg = 2
       /\ tasks[g].pc = "done" /\ tasks[g].op = "get" /\ tasks[g].id = 1
       /\ tasks[t].ret = 0
       /\ tasks[u].ret = 1
       /\ tasks[g].found
       /\ tasks[g].ret = 2

====
